---- MODULE Spec2Model ----
(***************************************************************************)
(* The distance-field object model of the ray marcher (src/src/objects.rs):*)
(* the Object trait and its three implementations Sphere, HorizontalPlane  *)
(* and AxisAlignedCube.  Every number in the source is an f32, so the      *)
(* model carries IEEE-754 binary32 values and computes each operation as   *)
(* the hardware does: exactly, then rounded to nearest, ties to even, with *)
(* gradual underflow, overflow to infinity, signed zeros and NaN.          *)
(***************************************************************************)
EXTENDS Integers, Sequences, FiniteSets, TLC

(***************************************************************************)
(* f32: a value is [k, s, m, e].  k = "fin": (-1)^s * m * 2^e with         *)
(* 2^23 <= m < 2^24 and EMin <= e <= EMax (normal), or m < 2^23 and        *)
(* e = EMin (subnormal, zero included).  k = "inf": the infinity of sign   *)
(* s.  k = "nan": not a number.                                            *)
(***************************************************************************)
Prec == 24
EMin == -149
EMax == 104

Pow2(n) == 2 ^ n

BitLen(n) ==
    IF n = 0 THEN 0 ELSE CHOOSE k \in 1..31 : n \div Pow2(k - 1) = 1

MinI(a, b) == IF a < b THEN a ELSE b
MaxI(a, b) == IF a > b THEN a ELSE b

NaN == [k |-> "nan", s |-> 0, m |-> 0, e |-> 0]
Inf(s) == [k |-> "inf", s |-> s, m |-> 0, e |-> 0]
Zero(s) == [k |-> "fin", s |-> s, m |-> 0, e |-> EMin]
Fin(s, m, e) == [k |-> "fin", s |-> s, m |-> m, e |-> e]

IsNaN(a) == a.k = "nan"
IsInf(a) == a.k = "inf"
IsFinite(a) == a.k = "fin"
IsZero(a) == a.k = "fin" /\ a.m = 0

\* An exact value m * 2^e with 0 < m < 2^Prec and e >= EMin, in canonical form.
Canon(s, m, e) ==
    LET d == MinI(Prec - BitLen(m), e - EMin)
    IN  IF e - d > EMax THEN Inf(s) ELSE Fin(s, m * Pow2(d), e - d)

\* Round to nearest, ties to even: the exact value is (m + f) * 2^e, where
\* 0 < f < 1 when sticky and f = 0 otherwise; m < 2^28.  A sticky value has
\* at least Prec + 1 bits in m.
Round(s, m, e, sticky) ==
    IF m = 0 THEN Zero(s)
    ELSE LET nb == BitLen(m)
             sh == MaxI(nb - Prec, EMin - e)
         IN  IF sh <= 0 THEN Canon(s, m, e)
             ELSE IF sh > nb + 1 THEN Zero(s)
             ELSE LET q == m \div Pow2(sh)
                      r == m % Pow2(sh)
                      half == Pow2(sh - 1)
                      up == r > half \/ (r = half /\ (sticky \/ q % 2 = 1))
                      q1 == IF up THEN q + 1 ELSE q
                      q2 == IF q1 = Pow2(Prec) THEN Pow2(Prec - 1) ELSE q1
                      e2 == IF q1 = Pow2(Prec) THEN e + sh + 1 ELSE e + sh
                  IN  IF q2 = 0 THEN Zero(s)
                      ELSE IF e2 > EMax THEN Inf(s)
                      ELSE Fin(s, q2, e2)

\* A non-zero finite value with its significand shifted up to Prec bits
\* (the exponent may then lie below EMin).
Expand(a) ==
    LET d == Prec - BitLen(a.m)
    IN  [m |-> a.m * Pow2(d), e |-> a.e - d]

Xor(s, t) == (s + t) % 2

Neg(a) == IF IsNaN(a) THEN a ELSE [a EXCEPT !.s = 1 - a.s]
Abs(a) == IF IsNaN(a) THEN a ELSE [a EXCEPT !.s = 0]

\* a + b for finite non-zero a and b with a.e >= b.e.
AddFin(a, b) ==
    LET d == a.e - b.e
        sa == IF a.s = 1 THEN -1 ELSE 1
        sb == IF b.s = 1 THEN -1 ELSE 1
    IN  IF d <= 5
        THEN LET v == sa * a.m * Pow2(d) + sb * b.m
             IN  IF v = 0 THEN Zero(0)
                 ELSE IF v < 0 THEN Round(1, -v, b.e, FALSE)
                 ELSE Round(0, v, b.e, FALSE)
        ELSE LET k == d - 3
                 lo == IF k >= 26 THEN 0 ELSE b.m \div Pow2(k)
                 st == IF k >= 26 THEN TRUE ELSE b.m % Pow2(k) # 0
                 big == a.m * 8
                 v == IF a.s = b.s THEN big + lo
                      ELSE big - lo - (IF st THEN 1 ELSE 0)
             IN  Round(a.s, v, a.e - 3, st)

Add(a, b) ==
    IF IsNaN(a) \/ IsNaN(b) THEN NaN
    ELSE IF IsInf(a) THEN (IF IsInf(b) /\ b.s # a.s THEN NaN ELSE a)
    ELSE IF IsInf(b) THEN b
    ELSE IF IsZero(a) /\ IsZero(b) THEN Zero(IF a.s = 1 /\ b.s = 1 THEN 1 ELSE 0)
    ELSE IF IsZero(a) THEN b
    ELSE IF IsZero(b) THEN a
    ELSE IF a.e >= b.e THEN AddFin(a, b) ELSE AddFin(b, a)

Sub(a, b) == Add(a, Neg(b))

Mul(a, b) ==
    IF IsNaN(a) \/ IsNaN(b) THEN NaN
    ELSE IF IsInf(a) \/ IsInf(b)
         THEN (IF IsZero(a) \/ IsZero(b) THEN NaN ELSE Inf(Xor(a.s, b.s)))
    ELSE IF IsZero(a) \/ IsZero(b) THEN Zero(Xor(a.s, b.s))
    ELSE LET x == Expand(a)
             y == Expand(b)
             x1 == x.m \div 4096
             x0 == x.m % 4096
             y1 == y.m \div 4096
             y0 == y.m % 4096
             cross == x1 * y0 + x0 * y1
             low == (cross % 4096) * 4096 + x0 * y0
             lo == low % Pow2(24)
             hi == x1 * y1 + cross \div 4096 + low \div Pow2(24)
         IN  Round(Xor(a.s, b.s), hi * 4 + lo \div Pow2(22),
                   x.e + y.e + 22, lo % Pow2(22) # 0)

\* Long division of r by d, for r < d: k more quotient bits appended to
\* q, and the remainder left.
DivStep(s, d, k) ==
    [q |-> s.q * Pow2(k) + (s.r * Pow2(k)) \div d, r |-> (s.r * Pow2(k)) % d]

\* The 27-bit quotient floor(n * 2^26 / d) of two 24-bit significands: the
\* leading bit, then 26 bits in steps that stay within 31 bits.
DivLoop(n, d) ==
    LET s0 == IF n >= d THEN [q |-> 1, r |-> n - d] ELSE [q |-> 0, r |-> n]
        s1 == DivStep(s0, d, 7)
        s2 == DivStep(s1, d, 7)
        s3 == DivStep(s2, d, 7)
    IN  DivStep(s3, d, 5)

Div(a, b) ==
    IF IsNaN(a) \/ IsNaN(b) THEN NaN
    ELSE IF IsInf(a) THEN (IF IsInf(b) THEN NaN ELSE Inf(Xor(a.s, b.s)))
    ELSE IF IsInf(b) THEN Zero(Xor(a.s, b.s))
    ELSE IF IsZero(b) THEN (IF IsZero(a) THEN NaN ELSE Inf(Xor(a.s, b.s)))
    ELSE IF IsZero(a) THEN Zero(Xor(a.s, b.s))
    ELSE LET x == Expand(a)
             y == Expand(b)
             d == DivLoop(x.m, y.m)
         IN  Round(Xor(a.s, b.s), d.q, x.e - y.e - 26, d.r # 0)

\* Digit-by-digit square root of n * 4^z: the i + 1 low base-4 digits of n
\* and then z zero digits are still to be taken in.
RECURSIVE SqrtLoop(_, _, _, _, _)
SqrtLoop(n, i, z, root, rem) ==
    IF i < 0 /\ z = 0 THEN [q |-> root, r |-> rem]
    ELSE LET digit == IF i >= 0 THEN (n \div Pow2(2 * i)) % 4 ELSE 0
             cur == 4 * rem + digit
             try == 4 * root + 1
             i2 == IF i >= 0 THEN i - 1 ELSE i
             z2 == IF i >= 0 THEN z ELSE z - 1
         IN  IF cur >= try THEN SqrtLoop(n, i2, z2, 2 * root + 1, cur - try)
             ELSE SqrtLoop(n, i2, z2, 2 * root, cur)

Sqrt(a) ==
    IF IsNaN(a) THEN NaN
    ELSE IF IsZero(a) THEN a
    ELSE IF a.s = 1 THEN NaN
    ELSE IF IsInf(a) THEN a
    ELSE LET x == Expand(a)
             odd == x.e % 2 = 1
             n == IF odd THEN 2 * x.m ELSE x.m
             e == IF odd THEN x.e - 1 ELSE x.e
             d == SqrtLoop(n, 12, 14, 0, 0)
         IN  Round(0, d.q, (e \div 2) - 14, d.r # 0)

\* |a| < |b| for values that are not NaN.
MagLt(a, b) ==
    IF IsInf(a) THEN FALSE
    ELSE IF IsInf(b) THEN TRUE
    ELSE a.e < b.e \/ (a.e = b.e /\ a.m < b.m)

\* The comparisons of f32: false when an operand is NaN; -0 equals +0.
Lt(a, b) ==
    IF IsNaN(a) \/ IsNaN(b) THEN FALSE
    ELSE IF IsZero(a) /\ IsZero(b) THEN FALSE
    ELSE IF a.s # b.s THEN a.s = 1
    ELSE IF a.s = 0 THEN MagLt(a, b) ELSE MagLt(b, a)

Gt(a, b) == Lt(b, a)

Eq(a, b) ==
    IF IsNaN(a) \/ IsNaN(b) THEN FALSE
    ELSE (IsZero(a) /\ IsZero(b)) \/ a = b

\* f32::max: the other operand when one is NaN.
Max(a, b) ==
    IF IsNaN(a) THEN b
    ELSE IF IsNaN(b) THEN a
    ELSE IF Lt(a, b) THEN b ELSE a

\* powi(2): the product of the value with itself.
Powi2(a) == Mul(a, a)

\* The f32 that is exactly n * 2^e, for an integer |n| < 2^Prec.
Lit(n, e) ==
    IF n = 0 THEN Zero(0)
    ELSE IF n < 0 THEN Round(1, -n, e, FALSE) ELSE Round(0, n, e, FALSE)

(***************************************************************************)
(* Vectors and points (nalgebra's Vector3<f32> and Point3<f32>) and the    *)
(* operations the source uses on them.                                     *)
(***************************************************************************)
Vec(x, y, z) == [x |-> x, y |-> y, z |-> z]

\* point - point and point - centre: the component-wise difference.
VSub(a, b) == Vec(Sub(a.x, b.x), Sub(a.y, b.y), Sub(a.z, b.z))

norm_squared(v) == Add(Add(Mul(v.x, v.x), Mul(v.y, v.y)), Mul(v.z, v.z))

norm(v) == Sqrt(norm_squared(v))

normalize(v) ==
    LET n == norm(v)
    IN  Vec(Div(v.x, n), Div(v.y, n), Div(v.z, n))

\* A faulty iamax: it moves on to a value that is merely equal, so the last
\* of the tied components wins.
Mutant_iamax(v) ==
    LET a0 == Abs(v.x)
        i1 == IF ~Lt(Abs(v.y), a0) THEN 1 ELSE 0
        a1 == IF ~Lt(Abs(v.y), a0) THEN Abs(v.y) ELSE a0
    IN  IF ~Lt(Abs(v.z), a1) THEN 2 ELSE i1

\* The index (0, 1, 2) of the component of largest absolute value: a scan
\* from index 0 that moves on only to a strictly greater value.
iamax(v) ==
    LET a0 == Abs(v.x)
        i1 == IF Gt(Abs(v.y), a0) THEN 1 ELSE 0
        a1 == IF Gt(Abs(v.y), a0) THEN Abs(v.y) ELSE a0
    IN  IF Gt(Abs(v.z), a1) THEN 2 ELSE i1

\* Vector3::zeros() with component i set to 1.0.
AxisVector(i) ==
    Vec(IF i = 0 THEN Lit(1, 0) ELSE Zero(0),
        IF i = 1 THEN Lit(1, 0) ELSE Zero(0),
        IF i = 2 THEN Lit(1, 0) ELSE Zero(0))

(***************************************************************************)
(* impl Object for Sphere                                                  *)
(***************************************************************************)
\* A faulty estimate: the radius minus the distance to the centre.
Mutant_Sphere_distance_estimate(self, point) ==
    Sub(self.radius, norm(VSub(self.centre, point)))

Sphere_distance_estimate(self, point) ==
    LET r_centre == VSub(self.centre, point)
    IN  Sub(norm(r_centre), self.radius)

Sphere_get_normal(self, point) == normalize(VSub(point, self.centre))

Sphere_get_reflectance(self) == Lit(1, 0)

(***************************************************************************)
(* impl Object for HorizontalPlane                                         *)
(***************************************************************************)
Plane_cos_ang_squared(point) ==
    Div(Powi2(point.y), norm_squared(Vec(point.x, point.y, point.z)))

\* A variant that guards the division: the height difference itself when
\* the sine is zero or undefined.
Mutant_Plane_distance_estimate(self, point) ==
    LET sin_ang == Sqrt(Sub(Lit(1, 0), Plane_cos_ang_squared(point)))
        dy == Abs(Sub(point.y, self.y))
    IN  IF IsNaN(sin_ang) \/ IsZero(sin_ang) THEN dy ELSE Div(dy, sin_ang)

Plane_distance_estimate(self, point) ==
    Div(Abs(Sub(point.y, self.y)),
        Sqrt(Sub(Lit(1, 0), Plane_cos_ang_squared(point))))

\* A variant whose normal faces the query point: down when it is below.
Mutant_Plane_get_normal(self, point) ==
    IF Lt(point.y, self.y) THEN Vec(Zero(0), Lit(-1, 0), Zero(0))
    ELSE Vec(Zero(0), Lit(1, 0), Zero(0))

Plane_get_normal(self, point) == Vec(Zero(0), Lit(1, 0), Zero(0))

Plane_get_reflectance(self) == Zero(0)

(***************************************************************************)
(* impl Object for AxisAlignedCube                                         *)
(***************************************************************************)
\* A faulty clearance: the square of |d| - size without the clamp at 0.
Mutant_Cube_clearance_squared(self, d) == Powi2(Sub(Abs(d), self.size))

\* 0.0f32.max(d.abs() - self.size).powi(2)
Cube_clearance_squared(self, d) == Powi2(Max(Zero(0), Sub(Abs(d), self.size)))

\* The sum under the square root.
Cube_sum_of_squares(self, point) ==
    LET diff == VSub(point, self.centre)
    IN  Add(Add(Cube_clearance_squared(self, diff.x),
                Cube_clearance_squared(self, diff.y)),
            Cube_clearance_squared(self, diff.z))

Cube_distance_estimate(self, point) == Sqrt(Cube_sum_of_squares(self, point))

\* A variant whose normal points outward: -1 on the negative side.
Mutant_Cube_get_normal(self, point) ==
    LET diff == VSub(point, self.centre)
        max_axis_index == iamax(normalize(diff))
        d == IF max_axis_index = 0 THEN diff.x
             ELSE IF max_axis_index = 1 THEN diff.y ELSE diff.z
        a == AxisVector(max_axis_index)
    IN  IF Lt(d, Zero(0)) THEN Vec(Neg(a.x), Neg(a.y), Neg(a.z)) ELSE a

Cube_get_normal(self, point) ==
    LET norm_misaligned == normalize(VSub(point, self.centre))
        max_axis_index == iamax(norm_misaligned)
    IN  AxisVector(max_axis_index)

\* A faulty default: half of the light is reflected.
Mutant_Object_get_reflectance(self) == Lit(1, -1)

\* The trait's default method, which AxisAlignedCube does not override.
Object_get_reflectance(self) == Zero(0)

(***************************************************************************)
(* Dynamic dispatch on the object's concrete type.                         *)
(***************************************************************************)
distance_estimate(self, point) ==
    CASE self.type = "Sphere" -> Sphere_distance_estimate(self, point)
      [] self.type = "HorizontalPlane" -> Plane_distance_estimate(self, point)
      [] self.type = "AxisAlignedCube" -> Cube_distance_estimate(self, point)

get_normal(self, point) ==
    CASE self.type = "Sphere" -> Sphere_get_normal(self, point)
      [] self.type = "HorizontalPlane" -> Plane_get_normal(self, point)
      [] self.type = "AxisAlignedCube" -> Cube_get_normal(self, point)

get_color_ref(self) == self.color

get_type_name(self) ==
    CASE self.type = "Sphere" -> "Sphere"
      [] self.type = "HorizontalPlane" -> "HorizontalPlane"
      [] self.type = "AxisAlignedCube" -> "Cuboid"

get_reflectance(self) ==
    CASE self.type = "Sphere" -> Sphere_get_reflectance(self)
      [] self.type = "HorizontalPlane" -> Plane_get_reflectance(self)
      [] self.type = "AxisAlignedCube" -> Object_get_reflectance(self)

(***************************************************************************)
(* The scenes and query points of the model.  Coordinates are integers up  *)
(* to MaxCoord, a half and 2^-12 (whose square is lost when added to 1),   *)
(* and the same integers scaled by 2^-76 (their squares underflow) and by  *)
(* 2^64 (their squares overflow).                                          *)
(***************************************************************************)
MaxCoord == 2

Ints == (-MaxCoord)..MaxCoord
UnitCoords == {Lit(n, 0) : n \in Ints} \cup {Lit(1, -1), Lit(1, -12)}
TinyCoords == {Lit(n, -76) : n \in Ints}
HugeCoords == {Lit(n, 64) : n \in Ints}

Triples(S) == {Vec(x, y, z) : x \in S, y \in S, z \in S}
Points == Triples(UnitCoords) \cup Triples(TinyCoords) \cup Triples(HugeCoords)

Origin == Vec(Zero(0), Zero(0), Zero(0))
OffCentre == Vec(Lit(1, 0), Zero(0), Lit(-1, 0))

Sphere(c, r) == [type |-> "Sphere", centre |-> c, radius |-> r, color |-> "red"]
HorizontalPlane(y) == [type |-> "HorizontalPlane", y |-> y, color |-> "green"]
AxisAlignedCube(c, sz) ==
    [type |-> "AxisAlignedCube", centre |-> c, size |-> sz, color |-> "blue"]

Spheres ==
    {Sphere(c, r) : c \in {Origin, OffCentre}, r \in {Lit(1, 0), Lit(3, 0)}}
    \cup {Sphere(Origin, Lit(1, -76)), Sphere(Origin, Lit(1, 64))}
Planes == {HorizontalPlane(Lit(n, 0)) : n \in Ints}
             \cup {HorizontalPlane(Lit(-1, 127))}
Cubes ==
    {AxisAlignedCube(c, sz) : c \in {Origin, OffCentre},
                              sz \in {Lit(1, 0), Lit(1, -1)}}
    \cup {AxisAlignedCube(Origin, Lit(1, -76)),
          AxisAlignedCube(Origin, Lit(1, 64))}
Objects == Spheres \cup Planes \cup Cubes

(***************************************************************************)
(* State: the object the scene holds and the query that last returned: who *)
(* issued it, on what point, and the value it returned.                    *)
(***************************************************************************)
VARIABLES scene, call

vars == <<scene, call>>

NoCall == [op |-> "none"]

Init ==
    /\ scene \in Objects
    /\ call = NoCall

\* A variant of the query that keeps a note of it in the object.
Mutant_DistanceEstimate(w, p) ==
    /\ call' = [op |-> "distance_estimate", worker |-> w, args |-> <<p>>,
                value |-> distance_estimate(scene, p)]
    /\ scene' = [scene EXCEPT !.color = "queried"]

DistanceEstimate(w, p) ==
    /\ call' = [op |-> "distance_estimate", worker |-> w, args |-> <<p>>,
                value |-> distance_estimate(scene, p)]
    /\ UNCHANGED scene

GetNormal(w, p) ==
    /\ call' = [op |-> "get_normal", worker |-> w, args |-> <<p>>,
                value |-> get_normal(scene, p)]
    /\ UNCHANGED scene

GetColorRef(w) ==
    /\ call' = [op |-> "get_color_ref", worker |-> w, args |-> <<>>,
                value |-> get_color_ref(scene)]
    /\ UNCHANGED scene

GetTypeName(w) ==
    /\ call' = [op |-> "get_type_name", worker |-> w, args |-> <<>>,
                value |-> get_type_name(scene)]
    /\ UNCHANGED scene

GetReflectance(w) ==
    /\ call' = [op |-> "get_reflectance", worker |-> w, args |-> <<>>,
                value |-> get_reflectance(scene)]
    /\ UNCHANGED scene

\* One query of the scene, on any point.
Next ==
    /\ call.op = "none"
    /\ \/ \E p \in Points : DistanceEstimate(1, p)
       \/ \E p \in Points : GetNormal(1, p)
       \/ GetColorRef(1)
       \/ GetTypeName(1)
       \/ GetReflectance(1)

Spec == Init /\ [][Next]_vars

(***************************************************************************)
(* Exact arithmetic, for stating what the real-number geometry says of a   *)
(* query: naturals of any size as sequences of base-2^15 digits, least     *)
(* significant first and without leading zeros, and dyadic rationals       *)
(* sg * mag * 2^ex over them.  Every finite f32 is such a rational.        *)
(***************************************************************************)
Base == 2 ^ 15

RECURSIVE BNFromInt(_)
BNFromInt(n) == IF n = 0 THEN <<>> ELSE <<n % Base>> \o BNFromInt(n \div Base)

BNTrim(x) ==
    LET nz == {i \in 1..Len(x) : x[i] # 0}
    IN  IF nz = {} THEN <<>>
        ELSE SubSeq(x, 1, CHOOSE i \in nz : \A j \in nz : j <= i)

BNDigit(x, i) == IF i <= Len(x) THEN x[i] ELSE 0

\* x + y: digit i of the sum takes a carry when the nearest lower digit sum
\* that is not Base - 1 is Base or more.
BNAdd(x, y) ==
    LET n == MaxI(Len(x), Len(y))
        t == [i \in 1..n |-> BNDigit(x, i) + BNDigit(y, i)]
        c == [i \in 1..(n + 1) |->
                IF \E j \in 1..(i - 1) :
                      t[j] >= Base /\ \A k \in (j + 1)..(i - 1) : t[k] = Base - 1
                THEN 1 ELSE 0]
    IN  BNTrim([i \in 1..(n + 1) |->
                  IF i <= n THEN (t[i] + c[i]) % Base ELSE c[i]])

\* x - y for x >= y: digit i gives up a borrow when the nearest lower digit
\* difference that is not 0 is negative.
BNSub(x, y) ==
    LET n == Len(x)
        t == [i \in 1..n |-> x[i] - BNDigit(y, i)]
        c == [i \in 1..n |->
                IF \E j \in 1..(i - 1) :
                      t[j] < 0 /\ \A k \in (j + 1)..(i - 1) : t[k] = 0
                THEN 1 ELSE 0]
    IN  BNTrim([i \in 1..n |-> (t[i] - c[i]) % Base])

\* -1, 0 or 1 as x is less than, equal to or greater than y.
BNCmp(x, y) ==
    IF Len(x) < Len(y) THEN -1
    ELSE IF Len(x) > Len(y) THEN 1
    ELSE IF \E i \in 1..Len(x) :
               x[i] < y[i] /\ \A k \in (i + 1)..Len(x) : x[k] = y[k] THEN -1
    ELSE IF x = y THEN 0 ELSE 1

BNShiftDigit(x) == IF x = <<>> THEN x ELSE <<0>> \o x

\* x * k for a digit k.
BNMulSmall(x, k) ==
    BNAdd(BNTrim([i \in 1..Len(x) |-> (x[i] * k) % Base]),
          BNShiftDigit(BNTrim([i \in 1..Len(x) |-> (x[i] * k) \div Base])))

\* acc * Base^i + x * (the low i digits of y), one digit of y at a time.
RECURSIVE BNMulAcc(_, _, _, _)
BNMulAcc(x, y, i, acc) ==
    IF i = 0 THEN acc
    ELSE LET a == BNAdd(BNMulSmall(x, y[i]), BNShiftDigit(acc))
         IN  IF Len(a) >= 0 THEN BNMulAcc(x, y, i - 1, a) ELSE a

BNMul(x, y) ==
    IF x = <<>> \/ y = <<>> THEN <<>>
    ELSE IF Len(x) >= Len(y) THEN BNMulAcc(x, y, Len(y), <<>>)
    ELSE BNMulAcc(y, x, Len(x), <<>>)

BNShiftDigits(x, n) == IF x = <<>> THEN x ELSE [i \in 1..n |-> 0] \o x

\* x * 2^k.
BNShl(x, k) == BNShiftDigits(BNMulSmall(x, Pow2(k % 15)), k \div 15)

DyZero == [sg |-> 0, mag |-> <<>>, ex |-> 0]
\* The number of trailing zero bits of n > 0.
TrailingZeros(n) ==
    CHOOSE z \in 0..30 : n % Pow2(z) = 0 /\ (n \div Pow2(z)) % 2 = 1

\* The rational n * 2^e, for an integer n.
DyInt(n, e) ==
    IF n = 0 THEN DyZero
    ELSE LET a == IF n < 0 THEN -n ELSE n
             z == TrailingZeros(a)
         IN  [sg |-> IF n < 0 THEN -1 ELSE 1,
              mag |-> BNFromInt(a \div Pow2(z)), ex |-> e + z]

\* The real number a finite f32 is.
DyOf(a) == DyInt(IF a.s = 1 THEN -a.m ELSE a.m, a.e)

DyNeg(a) == [a EXCEPT !.sg = -a.sg]
DyAbs(a) == [a EXCEPT !.sg = IF a.sg = 0 THEN 0 ELSE 1]

DyMul(a, b) ==
    IF a.sg = 0 \/ b.sg = 0 THEN DyZero
    ELSE [sg |-> a.sg * b.sg, mag |-> BNMul(a.mag, b.mag), ex |-> a.ex + b.ex]

DySq(a) == DyMul(a, a)

DyAdd(a, b) ==
    IF a.sg = 0 THEN b
    ELSE IF b.sg = 0 THEN a
    ELSE LET e == MinI(a.ex, b.ex)
             x == BNShl(a.mag, a.ex - e)
             y == BNShl(b.mag, b.ex - e)
             c == BNCmp(x, y)
         IN  IF a.sg = b.sg THEN [sg |-> a.sg, mag |-> BNAdd(x, y), ex |-> e]
             ELSE IF c = 0 THEN DyZero
             ELSE IF c > 0 THEN [sg |-> a.sg, mag |-> BNSub(x, y), ex |-> e]
             ELSE [sg |-> b.sg, mag |-> BNSub(y, x), ex |-> e]

DySub(a, b) == DyAdd(a, DyNeg(b))

\* -1, 0 or 1 as a is less than, equal to or greater than b.
DyCmp(a, b) == DySub(a, b).sg

DyLt(a, b) == DyCmp(a, b) < 0
DyLe(a, b) == DyCmp(a, b) <= 0
DyEq(a, b) == DyCmp(a, b) = 0

(***************************************************************************)
(* Concurrent workers sharing the scene: any worker issues any query at    *)
(* any time, any number of times.  A query is one atomic step: it reads    *)
(* the object and writes nothing the other workers can see.                *)
(***************************************************************************)
NumWorkers == 2

Workers == 1..NumWorkers

ConcPoints == Triples({Zero(0), Lit(1, 0)})

NextConc ==
    \E w \in Workers :
        \/ \E p \in ConcPoints : DistanceEstimate(w, p)
        \/ \E p \in ConcPoints : GetNormal(w, p)
        \/ GetColorRef(w)
        \/ GetTypeName(w)
        \/ GetReflectance(w)

SpecConc == Init /\ [][NextConc]_vars

(***************************************************************************)
(* The geometry the claims speak of, in exact arithmetic.                  *)
(***************************************************************************)
One == Lit(1, 0)

\* The f32 comparisons >= 0 and <= 0 (false of NaN).
GeZero(v) == ~IsNaN(v) /\ ~Lt(v, Zero(0))
LeZero(v) == ~IsNaN(v) /\ ~Gt(v, Zero(0))

IsFiniteVec(v) == IsFinite(v.x) /\ IsFinite(v.y) /\ IsFinite(v.z)

\* The exact difference a - b of two points, and the exact squared length.
ExactDiff(a, b) ==
    Vec(DySub(DyOf(a.x), DyOf(b.x)), DySub(DyOf(a.y), DyOf(b.y)),
        DySub(DyOf(a.z), DyOf(b.z)))

ExactNormSq(d) == DyAdd(DyAdd(DySq(d.x), DySq(d.y)), DySq(d.z))

\* The f32 v is finite and is exactly the real number d.
IsExactly(v, d) == IsFinite(v) /\ DyEq(DyOf(v), d)

IsQuery(op, type) == call.op = op /\ scene.type = type

(***************************************************************************)
(* C1.  Sphere::distance_estimate has the sign of |p - centre| - radius    *)
(* whenever the squared distance |p - centre|^2 is computed without        *)
(* rounding: it is >= 0 outside the sphere, exactly zero on its surface    *)
(* and <= 0 inside.                                                        *)
(***************************************************************************)
SphereSquaredDistanceExact(self, p) ==
    IsExactly(norm_squared(VSub(self.centre, p)),
              ExactNormSq(ExactDiff(self.centre, p)))

\* -1, 0 or 1 as p is inside, on or outside the sphere.
SphereSide(self, p) ==
    DyCmp(ExactNormSq(ExactDiff(self.centre, p)), DySq(DyOf(self.radius)))

C1_SphereSignWhenExact ==
    IsQuery("distance_estimate", "Sphere") =>
        LET p == call.args[1]
            side == SphereSide(scene, p)
        IN  SphereSquaredDistanceExact(scene, p) =>
                /\ side > 0 => GeZero(call.value)
                /\ side = 0 => IsZero(call.value)
                /\ side < 0 => LeZero(call.value)

\* A point strictly inside a sphere, with a strictly negative estimate.
C1_Witness ==
    /\ IsQuery("distance_estimate", "Sphere")
    /\ SphereSquaredDistanceExact(scene, call.args[1])
    /\ SphereSide(scene, call.args[1]) < 0
    /\ Lt(call.value, Zero(0))

\* C1 as the specification words it: strictly positive outside, zero on
\* the surface, strictly negative inside, at every point.
C1_SphereSignAlways ==
    IsQuery("distance_estimate", "Sphere") =>
        LET side == SphereSide(scene, call.args[1])
        IN  /\ side > 0 => Gt(call.value, Zero(0))
            /\ side = 0 => IsZero(call.value)
            /\ side < 0 => Lt(call.value, Zero(0))

(***************************************************************************)
(* C7.  No query changes a field of the object, and a query repeated on    *)
(* the same point returns the same value whichever worker issues it and    *)
(* whatever ran in between.                                                *)
(***************************************************************************)
C7_QueryIsPure ==
    /\ scene' = scene
    /\ (call.op = call'.op /\ call.args = call'.args) =>
            call'.value = call.value

C8_Reflectance ==
    call.op = "get_reflectance" =>
        /\ scene.type = "Sphere" => call.value = One
        /\ scene.type = "HorizontalPlane" => call.value = Zero(0)
        /\ scene.type = "AxisAlignedCube" => call.value = Zero(0)
        /\ GeZero(call.value) /\ ~Gt(call.value, One)

\* The cube, which inherits the trait's default, has been asked.
C8_Witness == IsQuery("get_reflectance", "AxisAlignedCube")

(***************************************************************************)
(* C9.  HorizontalPlane::get_normal is exactly (0, 1, 0), for every point  *)
(* and every height.                                                       *)
(***************************************************************************)
C9_PlaneNormalIsUp ==
    IsQuery("get_normal", "HorizontalPlane") =>
        call.value = Vec(Zero(0), One, Zero(0))

\* A point strictly below the plane, with a negative y, has been queried.
C9_Witness ==
    /\ IsQuery("get_normal", "HorizontalPlane")
    /\ Lt(call.args[1].y, scene.y)
    /\ Lt(call.args[1].y, Zero(0))

(***************************************************************************)
(* The cube's geometry in exact arithmetic.                                *)
(***************************************************************************)
Axes == 0..2

Comp(v, i) == IF i = 0 THEN v.x ELSE IF i = 1 THEN v.y ELSE v.z

\* max(0, |d| - size), exactly.
ExactClearance(d, size) ==
    LET c == DySub(DyAbs(d), DyOf(size))
    IN  IF c.sg > 0 THEN c ELSE DyZero

\* The exact sum of the squared clearances of p on the three axes.
ExactClearanceSq(self, p) ==
    LET d == ExactDiff(p, self.centre)
    IN  DyAdd(DyAdd(DySq(ExactClearance(d.x, self.size)),
                    DySq(ExactClearance(d.y, self.size))),
              DySq(ExactClearance(d.z, self.size)))

\* p is inside the box or on it.
InsideCube(self, p) ==
    LET d == ExactDiff(p, self.centre)
    IN  \A i \in Axes : DyLe(DyAbs(Comp(d, i)), DyOf(self.size))

(***************************************************************************)
(* C2.  AxisAlignedCube::distance_estimate is never negative and is 0 at   *)
(* every point inside or on the box.  At a point outside, when the sum S   *)
(* of the squared clearances is computed without rounding, the result is   *)
(* positive and is the rounded square root of S: its square is within      *)
(* S / 2^22 of S.                                                          *)
(***************************************************************************)
SquareIsNear(v, S) ==
    DyLe(DyMul(DyAbs(DySub(DySq(DyOf(v)), S)), DyInt(1, 22)), S)

C2_CubeDistance ==
    IsQuery("distance_estimate", "AxisAlignedCube") =>
        LET p == call.args[1]
            S == ExactClearanceSq(scene, p)
        IN  /\ GeZero(call.value)
            /\ InsideCube(scene, p) => IsZero(call.value)
            /\ (~InsideCube(scene, p)
                  /\ IsExactly(Cube_sum_of_squares(scene, p), S)) =>
                    /\ IsFinite(call.value)
                    /\ Gt(call.value, Zero(0))
                    /\ SquareIsNear(call.value, S)

\* The unit cube at the origin queried at (2, 0, 0) has answered 1.
C2_Witness ==
    /\ IsQuery("distance_estimate", "AxisAlignedCube")
    /\ scene.centre = Origin /\ scene.size = One
    /\ call.args[1] = Vec(Lit(2, 0), Zero(0), Zero(0))
    /\ call.value = One

\* C2 as the specification words it: zero exactly when inside or on the
\* box, and otherwise the square of the result equals S.
C2_CubeDistanceAlways ==
    IsQuery("distance_estimate", "AxisAlignedCube") =>
        LET p == call.args[1]
        IN  /\ GeZero(call.value)
            /\ IsZero(call.value) <=> InsideCube(scene, p)
            /\ ~InsideCube(scene, p) =>
                    IsExactly(call.value, DyOf(call.value))
                    /\ DyEq(DySq(DyOf(call.value)), ExactClearanceSq(scene, p))

(***************************************************************************)
(* C3.  AxisAlignedCube::get_normal at a point other than the centre is an *)
(* axis vector with +1 (never -1) on one axis and 0 on the others, the     *)
(* same at a point and at its mirror image through the centre.  The axis   *)
(* is the one where |p - centre| is largest whenever p - centre and its    *)
(* squared length are computed without rounding.                           *)
(***************************************************************************)
\* p - centre and its squared length are computed without rounding.
CubeDiffExact(self, p) ==
    LET d == VSub(p, self.centre)
        ed == ExactDiff(p, self.centre)
    IN  /\ \A i \in Axes : IsExactly(Comp(d, i), Comp(ed, i))
        /\ IsExactly(norm_squared(d), ExactNormSq(ed))

\* Axis i is where |p - centre| is strictly largest.
Dominant(self, p, i) ==
    LET ed == ExactDiff(p, self.centre)
    IN  \A j \in Axes \ {i} : DyLt(DyAbs(Comp(ed, j)), DyAbs(Comp(ed, i)))

\* The mirror image 2 * centre - p of p, and whether it is an f32 point.
Mirror(self, p) ==
    Vec(Sub(Add(self.centre.x, self.centre.x), p.x),
        Sub(Add(self.centre.y, self.centre.y), p.y),
        Sub(Add(self.centre.z, self.centre.z), p.z))

MirrorExact(self, p) ==
    LET m == Mirror(self, p)
    IN  /\ IsFiniteVec(m)
        /\ \A i \in Axes :
              DyEq(DySub(DyOf(Comp(m, i)), DyOf(Comp(self.centre, i))),
                   DySub(DyOf(Comp(self.centre, i)), DyOf(Comp(p, i))))

IsAxisVector(v) == \E i \in Axes : v = AxisVector(i)

TiedAxes(self, p) ==
    LET ed == ExactDiff(p, self.centre)
    IN  {i \in Axes : \A j \in Axes : DyLe(DyAbs(Comp(ed, j)), DyAbs(Comp(ed, i)))}

Lowest(S) == CHOOSE i \in S : \A j \in S : i <= j

C10_CubeNormalOnTies ==
    IsQuery("get_normal", "AxisAlignedCube") =>
        LET p == call.args[1]
            T == TiedAxes(scene, p)
        IN  /\ IsAxisVector(call.value)
            /\ (Cardinality(T) >= 2 /\ CubeDiffExact(scene, p)) =>
                    call.value = AxisVector(Lowest(T))

\* The y and z components tie above x, and the normal is that of y.
C10_Witness ==
    /\ IsQuery("get_normal", "AxisAlignedCube")
    /\ CubeDiffExact(scene, call.args[1])
    /\ TiedAxes(scene, call.args[1]) = {1, 2}
    /\ call.value = AxisVector(1)

\* C10 as the specification words it: the lowest-indexed tied axis at
\* every point where components tie.
C10_CubeNormalOnTiesAlways ==
    IsQuery("get_normal", "AxisAlignedCube") =>
        LET T == TiedAxes(scene, call.args[1])
        IN  /\ IsAxisVector(call.value)
            /\ Cardinality(T) >= 2 => call.value = AxisVector(Lowest(T))

(***************************************************************************)
(* The plane's geometry in exact arithmetic.                               *)
(***************************************************************************)
\* p is on the vertical axis through the origin.
OnVerticalAxis(p) == IsZero(p.x) /\ IsZero(p.z)

ExactPoint(p) == Vec(DyOf(p.x), DyOf(p.y), DyOf(p.z))

\* The height difference y - p.y, exactly.
ExactRise(self, p) == DySub(DyOf(self.y), DyOf(p.y))

\* p.y^2 and |p|^2 are computed without rounding.
PlaneSquaresExact(p) ==
    /\ IsExactly(Powi2(p.y), DySq(DyOf(p.y)))
    /\ IsExactly(norm_squared(p), ExactNormSq(ExactPoint(p)))

\* |y - p.y| is at most 2^100.
PlaneIsNear(self, p) == DyLe(DyAbs(ExactRise(self, p)), DyInt(1, 100))

(***************************************************************************)
(* C6.  HorizontalPlane::distance_estimate is non-finite (infinity or NaN) *)
(* at every point of the vertical axis through the origin.  At a point off *)
(* the axis it is finite when p.y^2 and |p|^2 are computed without         *)
(* rounding and |p.y - y| is at most 2^100.                                *)
(***************************************************************************)
C6_PlaneOnAxisNonFinite ==
    IsQuery("distance_estimate", "HorizontalPlane") =>
        LET p == call.args[1]
        IN  /\ OnVerticalAxis(p) => ~IsFinite(call.value)
            /\ (~OnVerticalAxis(p) /\ PlaneSquaresExact(p)
                  /\ PlaneIsNear(scene, p)) => IsFinite(call.value)

\* The plane at y = 0 queried on the axis above it has answered infinity.
C6_Witness ==
    /\ IsQuery("distance_estimate", "HorizontalPlane")
    /\ IsZero(scene.y)
    /\ OnVerticalAxis(call.args[1])
    /\ Gt(call.args[1].y, Zero(0))
    /\ IsInf(call.value)

\* C6 as the specification words it: finite at every point off the axis.
C6_PlaneFiniteOffAxis ==
    IsQuery("distance_estimate", "HorizontalPlane") =>
        LET p == call.args[1]
        IN  /\ OnVerticalAxis(p) => ~IsFinite(call.value)
            /\ ~OnVerticalAxis(p) => IsFinite(call.value)

(***************************************************************************)
(* C4.  For a HorizontalPlane at height y and a point p off the vertical   *)
(* axis, on a ray from the origin that has not yet reached the plane,      *)
(* distance_estimate(p) is no greater than the distance from p along the   *)
(* ray to the plane, which is |y - p.y| * |p| / |p.y|.                     *)
(***************************************************************************)
\* The ray from the origin through p meets the plane beyond p.
NotYetReached(self, p) ==
    \/ DyOf(p.y).sg > 0 /\ DyLt(DyOf(p.y), DyOf(self.y))
    \/ DyOf(p.y).sg < 0 /\ DyLt(DyOf(self.y), DyOf(p.y))

\* v <= |y - p.y| * |p| / |p.y|, for p.y # 0, compared by the squares.
WithinRayDistance(v, self, p) ==
    \/ LeZero(v)
    \/ /\ IsFinite(v)
       /\ DyLe(DyMul(DySq(DyOf(v)), DySq(DyOf(p.y))),
               DyMul(ExactNormSq(ExactPoint(p)), DySq(ExactRise(self, p))))

C4_PlaneNeverOvershoots ==
    IsQuery("distance_estimate", "HorizontalPlane") =>
        LET p == call.args[1]
        IN  (~OnVerticalAxis(p) /\ NotYetReached(scene, p)) =>
                WithinRayDistance(call.value, scene, p)

\* The plane at y = 2 queried at (1/2, 1, 0): the estimate exceeds the
\* distance along the ray, and all the arithmetic behind it is exact or
\* correctly rounded from exact squares.
C4_Overshoot ==
    /\ IsQuery("distance_estimate", "HorizontalPlane")
    /\ scene.y = Lit(2, 0)
    /\ call.args[1] = Vec(Lit(1, -1), One, Zero(0))
    /\ PlaneSquaresExact(call.args[1])
    /\ ~WithinRayDistance(call.value, scene, call.args[1])

(***************************************************************************)
(* Marching along a line: successive distance_estimate queries on points   *)
(* of the plane z = 0 whose coordinates are multiples of 1/2.              *)
(***************************************************************************)
SegMax == 4

SegCoords == {Lit(n, -1) : n \in (-SegMax)..SegMax}
SegPoints == {Vec(x, y, Zero(0)) : x \in SegCoords, y \in SegCoords}

SegObjects ==
    {Sphere(Origin, One), HorizontalPlane(Zero(0)),
     HorizontalPlane(Lit(-2, 0)), AxisAlignedCube(Origin, One)}

InitSeg ==
    /\ scene \in SegObjects
    /\ call = NoCall

NextSeg == \E p \in SegPoints : DistanceEstimate(1, p)

SpecSeg == InitSeg /\ [][NextSeg]_vars

\* A multiple of 1/2 of magnitude at least 1/2, or zero, in halves.
ToHalves(v) ==
    IF v.m = 0 THEN 0
    ELSE (IF v.s = 1 THEN -1 ELSE 1) * (v.m \div Pow2(-1 - v.e))

AbsI(n) == IF n < 0 THEN -n ELSE n

\* p - c in halves, in the plane z = 0.
HalvesFrom(c, p) ==
    <<ToHalves(p.x) - ToHalves(c.x), ToHalves(p.y) - ToHalves(c.y)>>

Dot(u, v) == u[1] * v[1] + u[2] * v[2]
Cross(u, v) == u[1] * v[2] - u[2] * v[1]

\* -1, 0 or 1 as the point p of SegPoints is inside, on or outside the
\* object of SegObjects (a plane has no inside).
SegSide(self, p) ==
    LET Sign(n) == IF n < 0 THEN -1 ELSE IF n > 0 THEN 1 ELSE 0
    IN  CASE self.type = "Sphere" ->
                LET d == HalvesFrom(self.centre, p)
                IN  Sign(Dot(d, d) - ToHalves(self.radius) * ToHalves(self.radius))
          [] self.type = "HorizontalPlane" ->
                IF ToHalves(p.y) = ToHalves(self.y) THEN 0 ELSE 1
          [] self.type = "AxisAlignedCube" ->
                LET d == HalvesFrom(self.centre, p)
                IN  Sign(MaxI(AbsI(d[1]), AbsI(d[2])) - ToHalves(self.size))

\* The segment from the outside point p1 to the surface point e meets the
\* object first at e.
FirstMeetsAt(self, p1, e) ==
    /\ SegSide(self, p1) > 0
    /\ SegSide(self, e) = 0
    /\ self.type = "Sphere" =>
            Dot(HalvesFrom(e, p1), HalvesFrom(self.centre, e)) >= 0

\* p2 is on the segment from p1 to e, nearer to e than p1 is.
NearerOnSegment(p1, p2, e) ==
    LET u == HalvesFrom(p1, e)
        w == HalvesFrom(p1, p2)
    IN  Cross(u, w) = 0 /\ Dot(u, w) > 0 /\ Dot(u, w) <= Dot(u, u)

\* |b| <= |a|, for f32 values (false of NaN).
MagnitudeLe(b, a) == ~IsNaN(a) /\ ~IsNaN(b) /\ ~Lt(Abs(a), Abs(b))

(***************************************************************************)
(* C5.  Along a segment that starts outside an object and ends on its      *)
(* surface, |distance_estimate| does not increase: a query at p1 followed  *)
(* by one at a point p2 of the segment nearer to its end returns a value   *)
(* of no greater magnitude.                                                *)
(***************************************************************************)
C5_Step ==
    (call.op = "distance_estimate" /\ call'.op = "distance_estimate") =>
        \A e \in SegPoints :
            (FirstMeetsAt(scene, call.args[1], e)
                /\ NearerOnSegment(call.args[1], call'.args[1], e)) =>
                    MagnitudeLe(call'.value, call.value)

C5_NonIncreasingAlongSegment == [][C5_Step]_vars

\* The plane at y = -2 on the segment from (2, 0, 0) to (-1, -2, 0): the
\* estimate at (1/2, -1, 0) is finite and exceeds the estimate at (2, 0, 0).
C5_Increase ==
    /\ IsQuery("distance_estimate", "HorizontalPlane")
    /\ scene.y = Lit(-2, 0)
    /\ call.args[1] = Vec(Lit(1, -1), Lit(-1, 0), Zero(0))
    /\ FirstMeetsAt(scene, Vec(Lit(2, 0), Zero(0), Zero(0)),
                    Vec(Lit(-1, 0), Lit(-2, 0), Zero(0)))
    /\ NearerOnSegment(Vec(Lit(2, 0), Zero(0), Zero(0)), call.args[1],
                       Vec(Lit(-1, 0), Lit(-2, 0), Zero(0)))
    /\ IsFinite(call.value)
    /\ Lt(distance_estimate(scene, Vec(Lit(2, 0), Zero(0), Zero(0))),
          call.value)

====
